---- MODULE Spec2Model ----
(***************************************************************************)
(* Model of the quote scraper: the merge/deduplication engine              *)
(* (ScraperService.mergeUniqueQuotes), the store adapter                   *)
(* (readExistingQuotes / saveQuotes), the scrape cycle (getQuotes), the    *)
(* one-shot scheduler (AutoScrapeService.onModuleInit / runOnce) and the   *)
(* time resolver (AutoScrapeService.delayUntilTime).                       *)
(*                                                                         *)
(* A JavaScript string is a sequence of one-character strings, so that     *)
(* String.prototype.trim is computed and not assumed.                      *)
(***************************************************************************)
EXTENDS Integers, Sequences, FiniteSets, TLC

VARIABLES
  \* ---- the running process (Spec) ----
  lifecycle,    \* "constructed" | "initialized" | "destroyed" (Nest module hooks)
  config,       \* [enabled, startAt]: AUTO_SCRAPE / AUTO_SCRAPE_START_AT
  running,      \* AutoScrapeService.running
  startTimer,   \* AutoScrapeService.startTimer
  cycles,       \* one getQuotes() invocation per caller, with its position
  file,         \* data/data.json
  started,      \* number of getQuotes() invocations started so far
  \* ---- mergeUniqueQuotes applied to bounded inputs (SpecMerge) ----
  mExisting,
  mIncoming,
  mOut,
  mPc,
  \* ---- delayUntilTime applied to bounded inputs (SpecTime) ----
  tInput,
  tNow,
  tOut,
  tPc

procVars  == <<lifecycle, config, running, startTimer, cycles, file, started>>
mergeVars == <<mExisting, mIncoming, mOut, mPc>>
timeVars  == <<tInput, tNow, tOut, tPc>>
vars      == <<procVars, mergeVars, timeVars>>

(***************************************************************************)
(* Strings                                                                 *)
(***************************************************************************)
WhiteSpace == {" "}

EmptyString == <<>>

RECURSIVE TrimStart(_)
TrimStart(s) ==
  IF s = <<>> THEN s
  ELSE IF Head(s) \in WhiteSpace THEN TrimStart(Tail(s)) ELSE s

RECURSIVE TrimEnd(_)
TrimEnd(s) ==
  IF s = <<>> THEN s
  ELSE IF s[Len(s)] \in WhiteSpace THEN TrimEnd(SubSeq(s, 1, Len(s) - 1)) ELSE s

\* String.prototype.trim
Trim(s) == TrimEnd(TrimStart(s))

\* Array.prototype.map / filter on a sequence
RECURSIVE MapTrim(_)
MapTrim(ss) ==
  IF ss = <<>> THEN <<>> ELSE <<Trim(Head(ss))>> \o MapTrim(Tail(ss))

RECURSIVE FilterNonEmpty(_)
FilterNonEmpty(ss) ==
  IF ss = <<>> THEN <<>>
  ELSE IF Head(ss) = EmptyString THEN FilterNonEmpty(Tail(ss))
       ELSE <<Head(ss)>> \o FilterNonEmpty(Tail(ss))

Range(s) == {s[i] : i \in DOMAIN s}

\* new Set(array) followed by Array.from: first occurrences, in order
RECURSIVE DedupKeepFirst(_)
DedupKeepFirst(ss) ==
  IF ss = <<>> THEN <<>>
  ELSE LET init == DedupKeepFirst(SubSeq(ss, 1, Len(ss) - 1))
           last == ss[Len(ss)]
       IN IF last \in Range(init) THEN init ELSE Append(init, last)

(***************************************************************************)
(* Merge engine: mergeUniqueQuotes and its upsert closure                  *)
(***************************************************************************)
QuoteItem(text, author, tags) == [text |-> text, author |-> author, tags |-> tags]

\* the state the closure works on: order: string[], byText: Map<string, QuoteItem>
EmptyMergeState == [order |-> <<>>, byText |-> <<>>]

keyOfUntrimmed(quote) == quote.text

\* const text = quote.text.trim()
keyOf(quote) == Trim(quote.text)

\* quote.tags.map((tag) => tag.trim()).filter(Boolean)
cleanTags(tags) == FilterNonEmpty(MapTrim(tags))

nextAuthorIncomingWins(existingAuthor, author) ==
  IF author # EmptyString THEN author ELSE existingAuthor

\* const nextAuthor = existingItem.author || author
nextAuthor(existingAuthor, author) ==
  IF existingAuthor # EmptyString THEN existingAuthor ELSE author

unionTagsReplaces(existingTags, tags) == DedupKeepFirst(tags)

\* new Set(existingItem.tags); for (tag of tags) tagSet.add(tag); Array.from(tagSet)
unionTags(existingTags, tags) == DedupKeepFirst(existingTags \o tags)

\* byText.get(text) is defined
HasKey(st, text) == \E i \in DOMAIN st.order : st.order[i] = text

upsertAlwaysAppends(st, quote) ==
  LET text   == keyOf(quote)
      author == Trim(quote.author)
      tags   == cleanTags(quote.tags)
  IN IF text = EmptyString THEN st
     ELSE [order  |-> Append(st.order, text),
           byText |-> Append(st.byText, QuoteItem(text, author, tags))]

\* the closure upsert
upsert(st, quote) ==
  LET text   == keyOf(quote)
      author == Trim(quote.author)
      tags   == cleanTags(quote.tags)
  IN IF text = EmptyString THEN st
     ELSE IF ~HasKey(st, text)
          THEN [order  |-> Append(st.order, text),
                byText |-> Append(st.byText, QuoteItem(text, author, tags))]
          ELSE LET i            == CHOOSE j \in DOMAIN st.order : st.order[j] = text
                   existingItem == st.byText[i]
               IN [order  |-> st.order,
                   byText |-> [st.byText EXCEPT ![i] =
                                 QuoteItem(text,
                                           nextAuthor(existingItem.author, author),
                                           unionTags(existingItem.tags, tags))]]

\* for (const quote of quotes) upsert(quote)
RECURSIVE upsertAll(_, _)
upsertAll(st, quotes) ==
  IF quotes = <<>> THEN st
  ELSE upsertAll(upsert(st, Head(quotes)), Tail(quotes))

mergeIncomingFirst(existing, incoming) ==
  upsertAll(upsertAll(EmptyMergeState, incoming), existing).byText

\* mergeUniqueQuotes(existing, incoming): order.map((text) => byText.get(text))
mergeUniqueQuotes(existing, incoming) ==
  upsertAll(upsertAll(EmptyMergeState, existing), incoming).byText

(***************************************************************************)
(* SpecMerge: mergeUniqueQuotes applied to bounded inputs                  *)
(***************************************************************************)
MaxExisting == 2
MaxIncoming == 2

sA    == <<"a">>
sPadA == <<" ", "a", " ">>
sB    == <<"b">>
sC    == <<"c">>
sX    == <<"X">>
sY    == <<"Y">>
sT    == <<"t">>
sPadT == <<" ", "t">>
sU    == <<"u">>
sBlank == <<" ">>

\* the records the inputs are drawn from: plain, padded and blank texts, empty,
\* blank and competing authors, repeated, padded and blank tags
Records ==
  { QuoteItem(sPadA,  sX,          <<sT>>),
    QuoteItem(sA,     sY,          <<sU, sPadT>>),
    QuoteItem(sA,     EmptyString, <<sU>>),
    QuoteItem(sB,     EmptyString, <<>>),
    QuoteItem(sB,     sX,          <<sBlank, sU>>),
    QuoteItem(sC,     sBlank,      <<sT, sT>>),
    QuoteItem(sBlank, sX,          <<sT>>) }

SeqsUpTo(S, n) == UNION {[1..k -> S] : k \in 0..n}

ProcIdle ==
  /\ lifecycle = "off"
  /\ config = [autoScrape |-> EmptyString, startAt |-> EmptyString]
  /\ running = FALSE
  /\ startTimer = "undefined"
  /\ cycles = <<>>
  /\ file = [kind |-> "absent", top |-> "none", count |-> 0, quotes |-> <<>>]
  /\ started = 0

TimeIdle ==
  /\ tInput = [hour |-> -1, minute |-> -1, suffix |-> "", str |-> EmptyString]
  /\ tNow = 0
  /\ tOut = [kind |-> "none", what |-> "", scheduledFor |-> 0, delayMs |-> 0]
  /\ tPc = "off"

MergeIdle ==
  /\ mExisting = <<>>
  /\ mIncoming = <<>>
  /\ mOut = <<>>
  /\ mPc = "off"

InitMerge ==
  /\ ProcIdle
  /\ TimeIdle
  /\ mExisting \in SeqsUpTo(Records, MaxExisting)
  /\ mIncoming \in SeqsUpTo(Records, MaxIncoming)
  /\ mOut = <<>>
  /\ mPc = "input"

\* one call of mergeUniqueQuotes(existing, incoming)
MergeCall ==
  /\ mPc = "input"
  /\ mOut' = mergeUniqueQuotes(mExisting, mIncoming)
  /\ mPc' = "merged"
  /\ UNCHANGED <<mExisting, mIncoming, procVars, timeVars>>

\* the next cycle reads back what the last one produced and scrapes the same batch
NextCycleSameBatch ==
  /\ mPc = "merged"
  /\ mExisting' = mOut
  /\ mOut' = <<>>
  /\ mPc' = "input"
  /\ UNCHANGED <<mIncoming, procVars, timeVars>>

NextMerge == MergeCall \/ NextCycleSameBatch

SpecMerge == InitMerge /\ [][NextMerge]_vars

(***************************************************************************)
(* Properties of the merge engine                                          *)
(***************************************************************************)
TagSet(q) == {Trim(q.tags[k]) : k \in DOMAIN q.tags} \ {EmptyString}

ContentEqual(x, y) ==
  /\ Len(x) = Len(y)
  /\ \A i \in DOMAIN x :
       /\ x[i].text = y[i].text
       /\ x[i].author = y[i].author
       /\ TagSet(x[i]) = TagSet(y[i])

\* existing-then-incoming, the order the records are processed in
Processed == mExisting \o mIncoming

\* positions of the records with trimmed text t
Occurrences(all, t) == {i \in DOMAIN all : Trim(all[i].text) = t}

Min(S) == CHOOSE x \in S : \A y \in S : x <= y

\* C3: merging the same batch into the merge output again gives a content-equal
\* collection (same texts in the same order, same authors, same tag sets): the
\* second cycle neither grows nor changes the collection.
C3_MergeIdempotent ==
  mPc = "merged" =>
    ContentEqual(mergeUniqueQuotes(mOut, mIncoming), mOut)

\* a merge in which existing and incoming share a text with different authors and tags
C3_Witness ==
  /\ mPc = "merged"
  /\ Len(mOut) = 2
  /\ Len(mExisting) = 2
  /\ Len(mIncoming) = 2
  /\ \E i \in DOMAIN mExisting, j \in DOMAIN mIncoming :
       /\ Trim(mExisting[i].text) = Trim(mIncoming[j].text)
       /\ Trim(mExisting[i].author) # Trim(mIncoming[j].author)
       /\ TagSet(mExisting[i]) # TagSet(mIncoming[j])

\* C4: no two records of the merge output share the same trimmed text.
C4_TextUnique ==
  mPc = "merged" =>
    \A i, j \in DOMAIN mOut :
      Trim(mOut[i].text) = Trim(mOut[j].text) => i = j

\* inputs with a repeated text and a whitespace-padded spelling of the same text
C4_Witness ==
  /\ mPc = "merged"
  /\ \E i, j \in DOMAIN Processed :
       /\ i # j
       /\ Processed[i].text # Processed[j].text
       /\ Trim(Processed[i].text) = Trim(Processed[j].text)
  /\ \E i, j \in DOMAIN mExisting : i # j /\ mExisting[i].text = mExisting[j].text
  /\ Len(mOut) >= 2

\* C5: the output lists each distinct non-empty trimmed text exactly once, in the
\* order of first encounter over existing-then-incoming.
C5_FirstSeenOrder ==
  mPc = "merged" =>
    /\ {mOut[i].text : i \in DOMAIN mOut}
         = {Trim(Processed[i].text) : i \in DOMAIN Processed} \ {EmptyString}
    /\ \A i, j \in DOMAIN mOut :
         i < j => Min(Occurrences(Processed, mOut[i].text))
                    < Min(Occurrences(Processed, mOut[j].text))

\* existing [B, A] merged with incoming [C, A] gives [B, A, C]
C5_Witness ==
  /\ mPc = "merged"
  /\ [i \in DOMAIN mExisting |-> Trim(mExisting[i].text)] = <<sB, sA>>
  /\ [i \in DOMAIN mIncoming |-> Trim(mIncoming[i].text)] = <<sC, sA>>
  /\ [i \in DOMAIN mOut |-> mOut[i].text] = <<sB, sA, sC>>

\* the first non-empty trimmed author among the records with text t, else empty
FirstAuthor(all, t) ==
  LET named == {i \in Occurrences(all, t) : Trim(all[i].author) # EmptyString}
  IN IF named = {} THEN EmptyString ELSE Trim(all[Min(named)].author)

\* C6: every output record carries the first non-empty trimmed author among the
\* records with its text, in existing-then-incoming order, or the empty author.
C6_AuthorFirstNonEmpty ==
  mPc = "merged" =>
    \A i \in DOMAIN mOut :
      mOut[i].author = FirstAuthor(Processed, mOut[i].text)

\* one text keeps its existing author against a different incoming one, another
\* text with an empty existing author adopts the incoming one
C6_Witness ==
  /\ mPc = "merged"
  /\ mExisting = <<QuoteItem(sB, EmptyString, <<>>), QuoteItem(sA, sY, <<sU, sPadT>>)>>
  /\ mIncoming = <<QuoteItem(sB, sX, <<sBlank, sU>>), QuoteItem(sPadA, sX, <<sT>>)>>
  /\ mOut[1].author = sX
  /\ mOut[2].author = sY

\* C7: for a text that occurs in existing and in incoming, the output tags are
\* the union of the trimmed non-empty tags of all records with that text.
C7_TagUnion ==
  mPc = "merged" =>
    \A i \in DOMAIN mOut :
      (/\ Occurrences(mExisting, mOut[i].text) # {}
       /\ Occurrences(mIncoming, mOut[i].text) # {})
      => {mOut[i].tags[k] : k \in DOMAIN mOut[i].tags}
           = UNION {TagSet(Processed[j]) : j \in Occurrences(Processed, mOut[i].text)}

\* existing tags {u} and incoming tags {t} for the same text give {t, u}
C7_Witness ==
  /\ mPc = "merged"
  /\ mExisting = <<QuoteItem(sA, EmptyString, <<sU>>)>>
  /\ mIncoming = <<QuoteItem(sPadA, sX, <<sT>>)>>
  /\ Len(mOut) = 1
  /\ {mOut[1].tags[k] : k \in DOMAIN mOut[1].tags} = {sT, sU}

(***************************************************************************)
(* Time resolver: AutoScrapeService.delayUntilTime                         *)
(*                                                                         *)
(* An instant is a number of milliseconds since local midnight of the day  *)
(* of `now`; the local day has 24 hours (a zone without a clock change     *)
(* on that day).                                                           *)
(***************************************************************************)
MsPerMinute == 60000
MsPerHour   == 3600000
MsPerDay    == 86400000

DigitChars == <<"0", "1", "2", "3", "4", "5", "6", "7", "8", "9">>

IsDigit(c) == \E i \in DOMAIN DigitChars : DigitChars[i] = c

DigitVal(c) == (CHOOSE i \in DOMAIN DigitChars : DigitChars[i] = c) - 1

\* Number(digits) for a run of one or two decimal digits
NumberOf(ds) ==
  IF Len(ds) = 1 THEN DigitVal(ds[1]) ELSE 10 * DigitVal(ds[1]) + DigitVal(ds[2])

\* hhmm.replace(/\s+/g, '')
RECURSIVE StripWhiteSpace(_)
StripWhiteSpace(s) ==
  IF s = <<>> THEN <<>>
  ELSE IF Head(s) \in WhiteSpace THEN StripWhiteSpace(Tail(s))
       ELSE <<Head(s)>> \o StripWhiteSpace(Tail(s))

UpperToLower == [c \in {"A", "M", "P"} |->
                   IF c = "A" THEN "a" ELSE IF c = "M" THEN "m" ELSE "p"]

\* String.prototype.toLowerCase on the alphabet of the inputs
ToLowerCase(s) ==
  [i \in DOMAIN s |-> IF s[i] \in DOMAIN UpperToLower THEN UpperToLower[s[i]] ELSE s[i]]

\* /^(\d{1,2}):(\d{2})(am|pm)?$/.exec(normalized): the groups, or no match
RegexMatch(s) ==
  LET fits(hl, sl) ==
        /\ Len(s) = hl + 3 + sl
        /\ \A i \in 1..hl : IsDigit(s[i])
        /\ s[hl + 1] = ":"
        /\ IsDigit(s[hl + 2])
        /\ IsDigit(s[hl + 3])
        /\ sl = 2 => (s[hl + 4] \in {"a", "p"} /\ s[hl + 5] = "m")
      shapes == {sh \in {1, 2} \X {0, 2} : fits(sh[1], sh[2])}
  IN IF shapes = {} THEN [matched |-> FALSE]
     ELSE LET sh == CHOOSE x \in shapes : TRUE
              hl == sh[1]
          IN [matched |-> TRUE,
              hours   |-> SubSeq(s, 1, hl),
              minutes |-> SubSeq(s, hl + 2, hl + 3),
              ampm    |-> IF sh[2] = 0 THEN "undefined"
                          ELSE IF s[hl + 4] = "a" THEN "am" ELSE "pm"]

hours12To24NoWrap(rawHours, ampm) ==
  IF ampm = "am" THEN rawHours ELSE rawHours + 12

\* ampm === 'am' ? rawHours % 12 : rawHours % 12 === 0 ? 12 : (rawHours % 12) + 12
hours12To24(rawHours, ampm) ==
  IF ampm = "am" THEN rawHours % 12
  ELSE IF rawHours % 12 = 0 THEN 12 ELSE (rawHours % 12) + 12

candidateHoursAmOnly(rawHours, ampm) ==
  IF ampm # "undefined" THEN <<hours12To24(rawHours, ampm)>>
  ELSE <<rawHours>>

\* the hours handed to addCandidate, in call order (rawHours in 0..23, and in
\* 1..12 when ampm is present)
candidateHours(rawHours, ampm) ==
  IF ampm # "undefined" THEN <<hours12To24(rawHours, ampm)>>
  ELSE IF rawHours = 0 \/ rawHours > 12 THEN <<rawHours>>
  ELSE IF rawHours = 12 THEN <<0, 12>>
  ELSE <<rawHours, rawHours + 12>>

addCandidateKeepsEqual(hours24, rawMinutes, now) ==
  LET d == hours24 * MsPerHour + rawMinutes * MsPerMinute
  IN IF d < now THEN d + MsPerDay ELSE d

\* addCandidate: today at hours24:rawMinutes:00.000, a day later when not after now
addCandidate(hours24, rawMinutes, now) ==
  LET d == hours24 * MsPerHour + rawMinutes * MsPerMinute
  IN IF d <= now THEN d + MsPerDay ELSE d

\* candidates.sort((a, b) => a - b)
RECURSIVE SortAscending(_)
SortAscending(ds) ==
  IF Len(ds) <= 1 THEN ds
  ELSE LET rest == SortAscending(Tail(ds))
           lower == SelectSeq(rest, LAMBDA x : x < Head(ds))
           upper == SelectSeq(rest, LAMBDA x : x >= Head(ds))
       IN lower \o <<Head(ds)>> \o upper

TimeError(what) ==
  [kind |-> "error", what |-> what, scheduledFor |-> 0, delayMs |-> 0]

\* delayUntilTime(hhmm) at the instant now = new Date()
delayUntilTime(hhmm, now) ==
  LET match == RegexMatch(StripWhiteSpace(hhmm))
  IN IF ~match.matched THEN TimeError("format")
     ELSE LET rawHours   == NumberOf(match.hours)
              rawMinutes == NumberOf(match.minutes)
              ampm       == match.ampm
          IN IF rawHours < 0 \/ rawHours > 23 THEN TimeError("hour")
             ELSE IF rawMinutes < 0 \/ rawMinutes > 59 THEN TimeError("minute")
             ELSE IF ampm # "undefined" /\ (rawHours < 1 \/ rawHours > 12)
                  THEN TimeError("12-hour hour")
             ELSE LET hs == candidateHours(rawHours, ampm)
                      candidates ==
                        SortAscending([i \in DOMAIN hs |->
                                         addCandidate(hs[i], rawMinutes, now)])
                      scheduledFor == candidates[1]
                  IN [kind         |-> "ok",
                      what         |-> "",
                      scheduledFor |-> scheduledFor,
                      delayMs      |-> IF scheduledFor - now > 0
                                       THEN scheduledFor - now ELSE 0]

\* (configService.get('AUTO_SCRAPE_START_AT') ?? '').trim().toLowerCase()
startAtOf(raw) == ToLowerCase(Trim(raw))

\* what onModuleInit obtains for a configured string: nothing to schedule, a
\* schedule error, or the resolved delay
scheduleOf(raw, now) ==
  IF startAtOf(raw) = EmptyString
  THEN [kind |-> "unset", what |-> "", scheduledFor |-> 0, delayMs |-> 0]
  ELSE delayUntilTime(startAtOf(raw), now)

(***************************************************************************)
(* SpecTime: delayUntilTime applied to bounded inputs                      *)
(***************************************************************************)
MaxRawHour == 24

InputMinutes == {0, 30, 59, 60}

NowMinutes == {0, 30, 59}

\* milliseconds past the minute of `now`
NowMillis == {0, 1}

DigitChar(d) == DigitChars[d + 1]

Decimal(n) ==
  IF n < 10 THEN <<DigitChar(n)>> ELSE <<DigitChar(n \div 10), DigitChar(n % 10)>>

TwoDigits(n) == <<DigitChar(n \div 10), DigitChar(n % 10)>>

SuffixText(suffix, style) ==
  IF suffix = "" THEN <<>>
  ELSE IF style = "plain" THEN (IF suffix = "am" THEN <<"a", "m">> ELSE <<"p", "m">>)
  ELSE (IF suffix = "am" THEN <<" ", "A", "M", " ">> ELSE <<" ", "P", "M", " ">>)

\* "9:00", "9:00pm" (plain) or "09:00", "09:00 PM " (styled: two-digit hour,
\* whitespace, upper-case suffix)
TimeText(hour, minute, suffix, style) ==
  (IF style = "plain" THEN Decimal(hour) ELSE <<" ">> \o TwoDigits(hour))
    \o <<":">> \o TwoDigits(minute) \o SuffixText(suffix, style)

WellFormedInputs ==
  { [hour |-> h, minute |-> m, suffix |-> sfx, str |-> TimeText(h, m, sfx, style)] :
      h \in 0..MaxRawHour, m \in InputMinutes, sfx \in {"", "am", "pm"},
      style \in {"plain", "styled"} }

MalformedInputs ==
  { [hour |-> -1, minute |-> -1, suffix |-> "", str |-> str] :
      str \in { <<"9">>, <<"9", ":", "5">>, <<"1", "2", "3", ":", "0", "0">>,
                <<"9", ":", "0", "0", "x", "m">>, <<" ">>, <<>> } }

TimeInputs == WellFormedInputs \cup MalformedInputs

NowSamples ==
  { h * MsPerHour + m * MsPerMinute + ms : h \in 0..23, m \in NowMinutes, ms \in NowMillis }

InitTime ==
  /\ ProcIdle
  /\ MergeIdle
  /\ tInput \in TimeInputs
  /\ tNow \in NowSamples
  /\ tOut = [kind |-> "none", what |-> "", scheduledFor |-> 0, delayMs |-> 0]
  /\ tPc = "input"

\* the schedule is resolved once, at the instant tNow
ResolveTime ==
  /\ tPc = "input"
  /\ tOut' = scheduleOf(tInput.str, tNow)
  /\ tPc' = "resolved"
  /\ UNCHANGED <<tInput, tNow, procVars, mergeVars>>

NextTime == ResolveTime

SpecTime == InitTime /\ [][NextTime]_vars

(***************************************************************************)
(* Properties of the time resolver                                         *)
(***************************************************************************)
TimeOfDay(hours24, minute) == hours24 * MsPerHour + minute * MsPerMinute

\* T is the earliest instant after now whose time of day is one of `readings`
IsEarliestAfter(T, readings, now) ==
  /\ T > now
  /\ (T % MsPerDay) \in readings
  /\ \A r \in readings, k \in {0, 1} :
       r + k * MsPerDay > now => T <= r + k * MsPerDay

\* C9: a time without am/pm whose hour is in 1..12 is scheduled at the earliest
\* next occurrence of its AM reading and its PM reading (00:MM and 12:MM for 12).
C9_AmbiguousEarliest ==
  (/\ tPc = "resolved"
   /\ tInput.suffix = ""
   /\ tInput.hour \in 1..12
   /\ tInput.minute \in 0..59)
  => /\ tOut.kind = "ok"
     /\ IsEarliestAfter(tOut.scheduledFor,
                        { TimeOfDay(tInput.hour % 12, tInput.minute),
                          TimeOfDay((tInput.hour % 12) + 12, tInput.minute) },
                        tNow)

\* now = 10:00, "9:00" resolves to 21:00 the same day
C9_Witness ==
  /\ tPc = "resolved"
  /\ tNow = 10 * MsPerHour
  /\ tInput.str = <<"9", ":", "0", "0">>
  /\ tOut.kind = "ok"
  /\ tOut.scheduledFor = 21 * MsPerHour

\* the 24-hour hour of h am / h pm, h in 1..12
Hour24(h, suffix) ==
  IF h = 12 THEN (IF suffix = "am" THEN 0 ELSE 12)
  ELSE (IF suffix = "am" THEN h ELSE h + 12)

\* C10: with am/pm, an hour outside 1..12 is an error; otherwise the single
\* candidate (0 for 12am, 12 for 12pm, h for h am, h+12 for h pm) is scheduled
\* at its next occurrence.
C10_SuffixConversion ==
  (/\ tPc = "resolved"
   /\ tInput.suffix \in {"am", "pm"}
   /\ tInput.minute \in 0..59)
  => IF tInput.hour \in 1..12
     THEN /\ tOut.kind = "ok"
          /\ IsEarliestAfter(tOut.scheduledFor,
                             {TimeOfDay(Hour24(tInput.hour, tInput.suffix), tInput.minute)},
                             tNow)
     ELSE tOut.kind = "error"

\* now = 10:00, "8:00am" resolves to 08:00 the next day
C10_Witness ==
  /\ tPc = "resolved"
  /\ tNow = 10 * MsPerHour
  /\ tInput.str = <<"8", ":", "0", "0", "a", "m">>
  /\ tOut.kind = "ok"
  /\ tOut.scheduledFor = MsPerDay + 8 * MsPerHour

\* a string of the grammar with hour 0..23, minute 0..59 and, with am/pm, hour 1..12
InputIsValid(t) ==
  /\ t.hour \in 0..23
  /\ t.minute \in 0..59
  /\ t.suffix # "" => t.hour \in 1..12

FileOf(kind, top, count, quotes) ==
  [kind |-> kind, top |-> top, count |-> count, quotes |-> quotes]

AbsentFile == FileOf("absent", "none", 0, <<>>)

InvalidJsonFile == FileOf("invalid", "none", 0, <<>>)

JsonString(s) == [kind |-> "string", text |-> s, author |-> EmptyString, tags |-> <<>>]

JsonOther == [kind |-> "other", text |-> EmptyString, author |-> EmptyString, tags |-> <<>>]

\* JSON.stringify of a QuoteItem, as JSON.parse gives it back
JsonObject(q) == [kind |-> "object", text |-> q.text, author |-> q.author, tags |-> q.tags]

coerceItemStringsOnly(item) ==
  IF item.kind = "string"
  THEN (IF Trim(item.text) = EmptyString THEN <<>>
        ELSE <<QuoteItem(Trim(item.text), EmptyString, <<>>)>>)
  ELSE <<>>

coerceItemObjectsOnly(item) ==
  IF item.kind = "object"
  THEN (IF Trim(item.text) = EmptyString THEN <<>>
        ELSE <<QuoteItem(Trim(item.text), Trim(item.author), cleanTags(item.tags))>>)
  ELSE <<>>

\* coerceQuoteItems, for one item: the record pushed, or nothing
coerceItem(item) ==
  IF item.kind = "string"
  THEN (IF Trim(item.text) = EmptyString THEN <<>>
        ELSE <<QuoteItem(Trim(item.text), EmptyString, <<>>)>>)
  ELSE IF item.kind = "object"
  THEN (IF Trim(item.text) = EmptyString THEN <<>>
        ELSE <<QuoteItem(Trim(item.text), Trim(item.author), cleanTags(item.tags))>>)
  ELSE <<>>

RECURSIVE coerceQuoteItems(_)
coerceQuoteItems(value) ==
  IF value = <<>> THEN <<>>
  ELSE coerceItem(Head(value)) \o coerceQuoteItems(Tail(value))

readExistingQuotesInvalidAsEmpty(f) ==
  IF f.kind \in {"absent", "invalid"} THEN [ok |-> TRUE, quotes |-> <<>>]
  ELSE IF f.top \in {"array", "object"}
       THEN [ok |-> TRUE, quotes |-> coerceQuoteItems(f.quotes)]
       ELSE [ok |-> TRUE, quotes |-> <<>>]

\* readExistingQuotes: the collection read, or the error thrown
readExistingQuotes(f) ==
  IF f.kind = "absent" THEN [ok |-> TRUE, quotes |-> <<>>]
  ELSE IF f.kind = "invalid" THEN [ok |-> FALSE, quotes |-> <<>>]
  ELSE IF f.top \in {"array", "object"}
       THEN [ok |-> TRUE, quotes |-> coerceQuoteItems(f.quotes)]
       ELSE [ok |-> TRUE, quotes |-> <<>>]

\* the document saveQuotes writes: { scrapedAt, source, title, count, quotes }
documentOf(mergedQuotes) ==
  FileOf("json", "object", Len(mergedQuotes),
         [i \in DOMAIN mergedQuotes |-> JsonObject(mergedQuotes[i])])

\* the earlier mergeUniqueQuotes, on bare strings
RECURSIVE mergeUniqueStrings(_, _)
mergeUniqueStrings(result, quotes) ==
  IF quotes = <<>> THEN result
  ELSE LET normalized == Trim(Head(quotes))
       IN IF normalized = EmptyString \/ normalized \in Range(result)
          THEN mergeUniqueStrings(result, Tail(quotes))
          ELSE mergeUniqueStrings(Append(result, normalized), Tail(quotes))

\* the document the earlier saveQuotes wrote: quotes are bare strings
legacyDocumentOf(existing, incoming) ==
  LET mergedQuotes == mergeUniqueStrings(<<>>, existing \o incoming)
  IN FileOf("json", "object", Len(mergedQuotes),
            [i \in DOMAIN mergedQuotes |-> JsonString(mergedQuotes[i])])

(***************************************************************************)
(* The scrape cycle (getQuotes) and its triggers                           *)
(***************************************************************************)
MaxManual == 2

HttpCallers == {"http1", "http2"}

Callers == HttpCallers \cup {"timer"}

\* what the page holds: one element per .quote, before the extraction trims
Pages ==
  { <<QuoteItem(sA, sX, <<sT>>), QuoteItem(sB, EmptyString, <<sU>>)>>,
    <<QuoteItem(sPadA, sY, <<sU, sBlank>>), QuoteItem(sBlank, sX, <<>>)>>,
    <<QuoteItem(sC, EmptyString, <<sT, sT>>)>> }

RECURSIVE FilterHasText(_)
FilterHasText(qs) ==
  IF qs = <<>> THEN <<>>
  ELSE IF Head(qs).text = EmptyString THEN FilterHasText(Tail(qs))
       ELSE <<Head(qs)>> \o FilterHasText(Tail(qs))

\* page.$$eval('.quote', ...): trimmed text and author, trimmed non-empty tags,
\* elements without text dropped
evalQuotes(page) ==
  FilterHasText([i \in DOMAIN page |->
                   QuoteItem(Trim(page[i].text), Trim(page[i].author),
                             cleanTags(page[i].tags))])

sOn == <<" ", "o", "n">>
sOff == <<"o", "f", "f">>

\* AUTO_SCRAPE: unset (or empty), " on" and "off"
AutoScrapeValues == {EmptyString, sOn, sOff}

\* parseBoolean
parseBoolean(value) ==
  IF value = EmptyString THEN FALSE
  ELSE ToLowerCase(Trim(value)) \in
         { <<"1">>, <<"t", "r", "u", "e">>, <<"y", "e", "s">>, <<"y">>, <<"o", "n">> }

\* unset, "9:00", and the malformed "25:00", "9:60" and "9"
StartAtValues ==
  { EmptyString, <<"9", ":", "0", "0">>, <<"2", "5", ":", "0", "0">>,
    <<"9", ":", "6", "0">>, <<"9">> }

InitialFiles ==
  { AbsentFile,
    InvalidJsonFile,
    legacyDocumentOf(<<>>, <<sA, sB, sA>>),
    FileOf("json", "array", 0,
           <<JsonString(sPadA), JsonOther, JsonString(sBlank), JsonString(sA)>>) }

IdleCycle == [pc |-> "idle", quotes |-> <<>>, merged |-> <<>>, outcome |-> "none"]

InProgress(c) == cycles[c].pc # "idle"

Init ==
  /\ MergeIdle
  /\ TimeIdle
  /\ lifecycle = "constructed"
  /\ config \in [autoScrape : AutoScrapeValues, startAt : StartAtValues]
  /\ running = FALSE
  /\ startTimer = "undefined"
  /\ cycles = [c \in Callers |-> IdleCycle]
  /\ file \in InitialFiles
  /\ started = 0

onModuleInitResultIgnoresFlag(cfg, now) ==
  LET schedule == scheduleOf(cfg.startAt, now)
  IN [timer |-> IF schedule.kind = "ok" THEN "armed" ELSE "undefined", threw |-> FALSE]

\* onModuleInit: the timer it leaves and whether an error escapes it. It returns
\* when the flag is off or the string is empty; a schedule error is caught and logged
onModuleInitResult(cfg, now) ==
  IF ~parseBoolean(cfg.autoScrape) THEN [timer |-> "undefined", threw |-> FALSE]
  ELSE LET schedule == scheduleOf(cfg.startAt, now)
       IN IF schedule.kind = "unset" THEN [timer |-> "undefined", threw |-> FALSE]
          ELSE IF schedule.kind = "ok" THEN [timer |-> "armed", threw |-> FALSE]
          ELSE [timer |-> "undefined", threw |-> FALSE]

\* AutoScrapeService.onModuleInit; an error escaping it would fail the startup
OnModuleInit ==
  /\ lifecycle = "constructed"
  /\ \E now \in NowSamples :
       LET result == onModuleInitResult(config, now)
       IN /\ startTimer' = result.timer
          /\ lifecycle' = IF result.threw THEN "failed" ELSE "initialized"
  /\ UNCHANGED <<config, running, cycles, file, started, mergeVars, timeVars>>

OnModuleDestroyKeepsTimer ==
  /\ lifecycle = "initialized"
  /\ lifecycle' = "destroyed"
  /\ UNCHANGED <<startTimer, config, running, cycles, file, started, mergeVars, timeVars>>

\* AutoScrapeService.onModuleDestroy
OnModuleDestroy ==
  /\ lifecycle = "initialized"
  /\ lifecycle' = "destroyed"
  /\ startTimer' = "undefined"
  /\ UNCHANGED <<config, running, cycles, file, started, mergeVars, timeVars>>

\* the setTimeout callback: runOnce, up to the first await of getQuotes
TimerFire ==
  /\ startTimer = "armed"
  /\ startTimer' = "fired"
  /\ IF running
     THEN UNCHANGED <<running, cycles>>
     ELSE /\ running' = TRUE
          /\ cycles' = [cycles EXCEPT !["timer"] = [IdleCycle EXCEPT !.pc = "fetch"]]
  /\ UNCHANGED <<lifecycle, config, file, started, mergeVars, timeVars>>

\* ScraperController.getQuotes: GET /scraper/quotes
HttpGetQuotes(c) ==
  /\ c \in HttpCallers
  /\ lifecycle = "initialized"
  /\ cycles[c].pc = "idle"
  /\ started < MaxManual
  /\ started' = started + 1
  /\ cycles' = [cycles EXCEPT ![c] = [IdleCycle EXCEPT !.pc = "fetch"]]
  /\ UNCHANGED <<lifecycle, config, running, startTimer, file, mergeVars, timeVars>>

\* getQuotes: launch, goto, title and $$eval succeed
FetchPage(c) ==
  /\ cycles[c].pc = "fetch"
  /\ \E page \in Pages :
       cycles' = [cycles EXCEPT ![c].quotes = evalQuotes(page), ![c].pc = "read"]
  /\ UNCHANGED <<lifecycle, config, running, startTimer, file, started, mergeVars, timeVars>>

FetchFailsTruncatesStore(c) ==
  /\ cycles[c].pc = "fetch"
  /\ cycles' = [cycles EXCEPT ![c].pc = "failed", ![c].outcome = "FetchError"]
  /\ file' = FileOf("json", "object", 0, <<>>)
  /\ UNCHANGED <<lifecycle, config, running, startTimer, started, mergeVars, timeVars>>

\* getQuotes: the navigation or the extraction throws
FetchFails(c) ==
  /\ cycles[c].pc = "fetch"
  /\ cycles' = [cycles EXCEPT ![c].pc = "failed", ![c].outcome = "FetchError"]
  /\ UNCHANGED <<lifecycle, config, running, startTimer, file, started, mergeVars, timeVars>>

\* saveQuotes: readExistingQuotes completes, then mergeUniqueQuotes and the call
\* of writeFile with the serialized output
ReadAndMerge(c) ==
  /\ cycles[c].pc = "read"
  /\ LET existingQuotes == readExistingQuotes(file)
     IN cycles' =
          IF existingQuotes.ok
          THEN [cycles EXCEPT
                  ![c].merged = mergeUniqueQuotes(existingQuotes.quotes, cycles[c].quotes),
                  ![c].pc = "write"]
          ELSE [cycles EXCEPT ![c].pc = "failed", ![c].outcome = "SyntaxError"]
  /\ UNCHANGED <<lifecycle, config, running, startTimer, file, started, mergeVars, timeVars>>

\* saveQuotes: writeFile replaces the document
WriteFile(c) ==
  /\ cycles[c].pc = "write"
  /\ file' = documentOf(cycles[c].merged)
  /\ cycles' = [cycles EXCEPT ![c].pc = "close"]
  /\ UNCHANGED <<lifecycle, config, running, startTimer, started, mergeVars, timeVars>>

\* what the caller's promise settles with: the HTTP handler passes the rejection
\* on, runOnce catches and logs it
settledOutcome(c, cycle) ==
  IF cycle.pc = "close" THEN "resolved"
  ELSE IF c = "timer" THEN "logged"
  ELSE cycle.outcome

SettleRearmsOnError(c) ==
  /\ cycles[c].pc \in {"close", "failed"}
  /\ cycles' = [cycles EXCEPT
                  ![c].pc = "idle",
                  ![c].outcome = settledOutcome(c, cycles[c])]
  /\ running' = IF c = "timer" THEN FALSE ELSE running
  /\ startTimer' = IF c = "timer" /\ cycles[c].pc = "failed" THEN "armed" ELSE startTimer
  /\ UNCHANGED <<lifecycle, config, file, started, mergeVars, timeVars>>

SettleKeepsFlagOnError(c) ==
  /\ cycles[c].pc \in {"close", "failed"}
  /\ cycles' = [cycles EXCEPT
                  ![c].pc = "idle",
                  ![c].outcome = settledOutcome(c, cycles[c])]
  /\ running' = IF c = "timer" /\ cycles[c].pc = "close" THEN FALSE ELSE running
  /\ UNCHANGED <<lifecycle, config, startTimer, file, started, mergeVars, timeVars>>

\* getQuotes settles (after browser.close); runOnce's finally releases the flag
Settle(c) ==
  /\ cycles[c].pc \in {"close", "failed"}
  /\ cycles' = [cycles EXCEPT
                  ![c].pc = "idle",
                  ![c].outcome = settledOutcome(c, cycles[c])]
  /\ running' = IF c = "timer" THEN FALSE ELSE running
  /\ UNCHANGED <<lifecycle, config, startTimer, file, started, mergeVars, timeVars>>

Next ==
  \/ OnModuleInit
  \/ OnModuleDestroy
  \/ TimerFire
  \/ \E c \in Callers :
       \/ HttpGetQuotes(c)
       \/ FetchPage(c)
       \/ FetchFails(c)
       \/ ReadAndMerge(c)
       \/ WriteFile(c)
       \/ Settle(c)

Spec == Init /\ [][Next]_vars

(***************************************************************************)
(* Properties of the running process                                       *)
(***************************************************************************)
\* C1: at most one scrape cycle (fetch, merge, persist) is in progress at any time.
C1_AtMostOneCycle ==
  Cardinality({c \in Callers : InProgress(c)}) <= 1

\* C2: a timer fire that arrives while a manually triggered cycle is in progress
\* starts no cycle of its own.
C2_FireSkippedDuringManual ==
  [][ (/\ startTimer = "armed"
       /\ startTimer' = "fired"
       /\ \E c \in HttpCallers : InProgress(c))
      => cycles'["timer"].pc = "idle" ]_vars

HasDuplicate(seq) == \E i, j \in DOMAIN seq : i # j /\ seq[i] = seq[j]

\* C8: no record of a merge output or of the persisted document carries the
\* same tag twice.
C8_NoDuplicateTags ==
  /\ \A c \in Callers :
       \A i \in DOMAIN cycles[c].merged : ~HasDuplicate(cycles[c].merged[i].tags)
  /\ \A i \in DOMAIN file.quotes : ~HasDuplicate(file.quotes[i].tags)

\* the strings of the grammar that delayUntilTime must accept
ValidStartAts == {t.str : t \in {x \in WellFormedInputs : InputIsValid(x)}}

\* the flag is set and a valid time string is configured
ShouldArm == config.autoScrape = sOn /\ config.startAt \in ValidStartAts

\* no cycle of caller c has started yet
NeverRan(c) == cycles[c].pc = "idle" /\ cycles[c].outcome = "none"

\* C12: startup never fails; after it the timer is armed (or has fired) exactly
\* when the flag is set and the time string is valid; otherwise no scheduled
\* cycle ever runs, and the manual trigger can be used.
C12_ArmedIffConfigured ==
  /\ lifecycle # "failed"
  /\ lifecycle = "initialized" => (startTimer \in {"armed", "fired"} <=> ShouldArm)
  /\ ~ShouldArm => (startTimer = "undefined" /\ NeverRan("timer") /\ ~running)
  /\ (lifecycle = "initialized" /\ started = 0) => ENABLED HttpGetQuotes("http1")

\* flag set with the malformed "25:00": no timer, and a manual cycle has completed
C12_Witness ==
  /\ config.autoScrape = sOn
  /\ config.startAt = <<"2", "5", ":", "0", "0">>
  /\ lifecycle = "initialized"
  /\ startTimer = "undefined"
  /\ cycles["http1"].pc = "idle"
  /\ cycles["http1"].outcome = "resolved"

\* C13: a scheduled cycle starts only in the step in which the armed timer
\* fires; a fired timer is never armed again, and the timer is armed only by
\* the startup, which happens once.
C13_OneShot ==
  [][ /\ (cycles["timer"].pc = "idle" /\ cycles'["timer"].pc # "idle")
           => (startTimer = "armed" /\ startTimer' = "fired")
      /\ startTimer = "fired" => startTimer' \in {"fired", "undefined"}
      /\ (startTimer # "armed" /\ startTimer' = "armed") => lifecycle = "constructed"
      /\ lifecycle' = "constructed" => lifecycle = "constructed" ]_vars

\* the scheduled run failed and was logged; the timer stays fired while a
\* manual cycle runs afterwards
C13_Witness ==
  /\ startTimer = "fired"
  /\ cycles["timer"].pc = "idle"
  /\ cycles["timer"].outcome = "logged"
  /\ ~running
  /\ InProgress("http1")

\* C14: from the shutdown on the timer is disarmed, and a scheduled cycle that
\* had not started by then never starts.
C14_DestroyDisarms ==
  [][ lifecycle' = "destroyed"
        => /\ startTimer' = "undefined"
           /\ NeverRan("timer") => NeverRan("timer")' ]_vars

\* the timer was armed, the shutdown came first, and the process went on
C14_Witness ==
  /\ ShouldArm
  /\ lifecycle = "destroyed"
  /\ startTimer = "undefined"
  /\ NeverRan("timer")
  /\ cycles["http1"].outcome = "resolved"

\* C16: the flag is true exactly while the scheduled cycle is in progress, and
\* the scheduled cycle never settles with an error: runOnce logs it.
C16_FlagHeldOnlyDuringScheduledCycle ==
  /\ running <=> InProgress("timer")
  /\ cycles["timer"].pc = "idle" => cycles["timer"].outcome \in {"none", "resolved", "logged"}

\* a scheduled cycle that failed on the unreadable store has released the flag
C16_Witness ==
  /\ file.kind = "invalid"
  /\ startTimer = "fired"
  /\ cycles["timer"].pc = "idle"
  /\ cycles["timer"].outcome = "logged"
  /\ ~running

\* a stored document of bare strings (and no object)
IsLegacyStore(f) ==
  /\ f.kind = "json"
  /\ \E i \in DOMAIN f.quotes : f.quotes[i].kind = "string"
  /\ \A i \in DOMAIN f.quotes : f.quotes[i].kind # "object"

\* its distinct trimmed non-empty strings, in order
LegacyTexts(f) ==
  LET strings == SelectSeq(f.quotes, LAMBDA item : item.kind = "string")
  IN DedupKeepFirst(FilterNonEmpty(MapTrim([i \in DOMAIN strings |-> strings[i].text])))

\* C17: a cycle that read a store of bare strings keeps one record per stored
\* text at its stored position, with the author and tags the scraped batch
\* gives for that text (empty when the batch does not hold it), and no text twice.
C17_LegacyStoreUpgraded ==
  \A c \in Callers :
    (IsLegacyStore(file) /\ cycles[c].pc = "write")
    => LET old   == LegacyTexts(file)
           batch == cycles[c].quotes
           m     == cycles[c].merged
       IN /\ Len(m) >= Len(old)
          /\ \A i, j \in DOMAIN m : m[i].text = m[j].text => i = j
          /\ \A i \in DOMAIN old :
               /\ m[i].text = old[i]
               /\ m[i].author = FirstAuthor(batch, old[i])
               /\ {m[i].tags[k] : k \in DOMAIN m[i].tags}
                    = UNION {TagSet(batch[j]) : j \in Occurrences(batch, old[i])}

\* the store ["a", "b"] and a page with a by X tagged t, and b tagged u
C17_Witness ==
  /\ IsLegacyStore(file)
  /\ file.top = "object"
  /\ cycles["http1"].pc = "write"
  /\ cycles["http1"].merged
       = <<QuoteItem(sA, sX, <<sT>>), QuoteItem(sB, EmptyString, <<sU>>)>>

StoredTexts(f) == {f.quotes[i].text : i \in DOMAIN f.quotes}

\* C18: the texts a completed cycle has persisted are in the persisted document.
C18_NoLostUpdate ==
  \A c \in Callers :
    (cycles[c].pc = "idle" /\ cycles[c].outcome = "resolved")
    => {cycles[c].merged[i].text : i \in DOMAIN cycles[c].merged} \subseteq StoredTexts(file)

\* C19: a cycle whose fetch fails does not change the document, holds nothing
\* read or merged, goes on only to settle, and a manual caller gets the error.
C19_FailedFetchLeavesStore ==
  [][ \A c \in Callers :
        /\ (cycles'[c] # cycles[c] /\ cycles'[c].outcome = "FetchError")
             => /\ file' = file
                /\ cycles'[c].pc \in {"failed", "idle"}
                /\ cycles'[c].quotes = <<>>
                /\ cycles'[c].merged = <<>>
        /\ (cycles'[c] # cycles[c] /\ cycles[c].outcome = "FetchError" /\ InProgress(c))
             => /\ cycles'[c].pc = "idle"
                /\ c \in HttpCallers => cycles'[c].outcome = "FetchError" ]_vars

\* a manual cycle ended with the fetch error and the store is still absent
C19_Witness ==
  /\ file.kind = "absent"
  /\ cycles["http1"].pc = "idle"
  /\ cycles["http1"].outcome = "FetchError"

\* C20: a cycle that reads the missing file goes on with an empty collection
\* (its output holds the texts of its batch only); a cycle that reads a file
\* that is not JSON fails, and no step changes such a file.
C20_InvalidStoreFailsRead ==
  [][ /\ file.kind = "invalid" => file' = file
      /\ \A c \in Callers :
           (cycles[c].pc = "read" /\ cycles'[c] # cycles[c])
           => /\ file.kind = "invalid"
                   => (cycles'[c].pc = "failed" /\ cycles'[c].outcome = "SyntaxError")
              /\ file.kind = "absent"
                   => /\ cycles'[c].pc = "write"
                      /\ {cycles'[c].merged[i].text : i \in DOMAIN cycles'[c].merged}
                           = {cycles[c].quotes[i].text : i \in DOMAIN cycles[c].quotes} ]_vars

\* two cycles, one after the other, failed on the same unreadable file
C20_Witness ==
  /\ file.kind = "invalid"
  /\ cycles["http1"].pc = "idle"
  /\ cycles["http1"].outcome = "SyntaxError"
  /\ cycles["http2"].pc = "idle"
  /\ cycles["http2"].outcome = "SyntaxError"

\* C15: the document written for a merge output is read back as that output:
\* same length, same order, same text, author and tags per record.
C15_RoundTrip ==
  mPc = "merged"
  => LET back == readExistingQuotes(documentOf(mOut))
     IN /\ back.ok
        /\ Len(back.quotes) = Len(mOut)
        /\ \A i \in DOMAIN mOut :
             /\ back.quotes[i].text = mOut[i].text
             /\ back.quotes[i].author = mOut[i].author
             /\ back.quotes[i].tags = mOut[i].tags

\* an output of three records, one of them with an author and tags
C15_Witness ==
  /\ mPc = "merged"
  /\ Len(mOut) = 3
  /\ \E i \in DOMAIN mOut : mOut[i].author # EmptyString /\ mOut[i].tags # <<>>

====
